---- MODULE Spec2Model ----
(***************************************************************************)
(* Model of content_script.js (Wormhole auto downloader): the locator, the *)
(* busy detector, the session-storage reload ledger and the startAutoDl    *)
(* retry machine with its MutationObserver, poll interval, busy backoff    *)
(* timer and observer-timeout ("watchdog") timer.                          *)
(*                                                                         *)
(* Time is in milliseconds.  Every pending timer carries the time left     *)
(* until it is due; Advance lets time pass up to the next due timer, and a *)
(* due timer's callback runs as one atomic step (one event-loop task).     *)
(***************************************************************************)
EXTENDS Integers, Sequences, FiniteSets

\* ---- CONFIG (content_script.js lines 6-10) ----
INITIAL_WAIT_MS == 7000
POLL_INTERVAL_MS == 500
OBSERVER_TIMEOUT_MS == 30000
MAX_RELOADS == 3
\* BACKOFF_FACTOR = 1.8, kept exact as the fraction 9/5
BACKOFF_NUM == 9
BACKOFF_DEN == 5
\* Math.max(2000, ...) in the busy branch
MIN_EXTRA_WAIT_MS == 2000
\* setTimeout(startAutoDl, 150) of the bootstrap
START_DELAY_MS == 150

\* ---- bounds of the model ----
\* largest stored count the ledger operations are checked on
MaxStored == 12
\* longest document the locator is checked on
MaxElems == 3
\* startAutoDl instances followed within one page load
MaxInstances == 3
\* page loads (the first one and the reloads) followed within one session
MaxLoads == 5

\* ---- vocabularies ----
BUSY_TEXTS ==
  {"Encrypting", "Encrypting...", "Uploading", "Uploading...",
   "Uploaded", "You can close this page now", "downloadError"}

\* The strings of the modelled documents that DOWNLOAD_TEXT_RE
\* /\b(download|download file|download all files|download files|get file)\b/i
\* accepts; "downloadError" and "Get it" are not accepted (no word boundary
\* after "download", no alternative matches).
DownloadTextMatches == {"Download", "download file", "Get file"}

\* DOWNLOAD_TEXT_RE.test(s)
DOWNLOAD_TEXT_RE(s) == s \in DownloadTextMatches

\* The hrefs of the modelled documents that HREF_FILE_EXT_RE accepts.
FileExtHrefs == {"f.zip", "/download/f.pdf"}

\* HREF_FILE_EXT_RE.test(h)
HREF_FILE_EXT_RE(h) == h \in FileExtHrefs

\* h contains the substring "download" (selector a[href*="download"])
HrefHasDownload(h) == h \in {"/download/abc", "/download/f.pdf"}

\* s contains the substring "Download" (selectors [aria-label*=...], [title*=...])
HasCapitalDownload(s) == s \in {"Download", "Download file"}

\* /download/i.test(s) on a data-testid / data-test / data-download value
TestIdHasDownload(s) == s \in {"download-button", "Download"}

\* ---- elements of a surface ----
\* A document is the sequence of its elements in document order.
Elem(tag, classes, text) ==
  [tag |-> tag, classes |-> classes, text |-> text, href |-> "",
   download |-> FALSE, ariaLabel |-> "", title |-> "", testid |-> "",
   role |-> "", disabled |-> FALSE, styleHidden |-> FALSE, hasRects |-> TRUE,
   inViewport |-> TRUE, ariaHidden |-> FALSE, ariaBusy |-> FALSE]

ChakraCancel == Elem("button", {"chakra-button"}, "Cancel")
ChakraDownload == Elem("button", {"chakra-button"}, "Download")
ChakraHidden == [ChakraDownload EXCEPT !.styleHidden = TRUE]
ChakraDisabled == [ChakraDownload EXCEPT !.disabled = TRUE]
PlainLink == [Elem("a", {}, "Download") EXCEPT !.href = "#"]
FileLink == [Elem("a", {}, "") EXCEPT !.href = "f.zip"]
DlHrefLink == [Elem("a", {}, "Get it") EXCEPT !.href = "/download/abc"]
DlAttrDiv == [Elem("div", {}, "") EXCEPT !.download = TRUE]
AriaButton == [Elem("button", {}, "") EXCEPT !.ariaLabel = "Download"]
RoleButton == [Elem("div", {}, "") EXCEPT !.role = "button", !.testid = "download-button"]
Spinner == [Elem("div", {"spinner"}, "") EXCEPT !.ariaBusy = TRUE]
BusyText == Elem("div", {}, "Encrypting...")

Elements ==
  {ChakraCancel, ChakraDownload, ChakraHidden, ChakraDisabled, PlainLink, FileLink,
   DlHrefLink, DlAttrDiv, AriaButton, RoleButton, Spinner}

RECURSIVE SeqsUpTo(_, _)
SeqsUpTo(S, n) ==
  IF n = 0 THEN {<<>>}
  ELSE LET shorter == SeqsUpTo(S, n - 1)
       IN shorter \cup {Append(d, e) : d \in {x \in shorter : Len(x) = n - 1}, e \in S}

\* the documents the locator is checked on
Docs == SeqsUpTo(Elements, MaxElems)

\* the surfaces a page shows while the retry machine runs
Blank == <<ChakraCancel>>
Busy == <<ChakraCancel, BusyText>>
Spinning == <<Spinner>>
Ready == <<ChakraCancel, PlainLink, ChakraDownload>>
BusyReady == <<BusyText, AriaButton>>
Surfaces == {Blank, Busy, Spinning, Ready, BusyReady}

\* ---- isBusyUiPresent (lines 37-54) ----
\* document.body.innerText holds the text of the rendered elements
InnerTextParts(d) ==
  {d[i].text : i \in {j \in 1..Len(d) : ~d[j].styleHidden}}

BusySelector(e) ==
  e.ariaBusy \/ "loading" \in e.classes \/ "spinner" \in e.classes

isBusyUiPresent(d) ==
  \/ \E t \in BUSY_TEXTS : t \in InnerTextParts(d)
  \/ \E i \in 1..Len(d) : BusySelector(d[i])

\* ---- isVisibleAndInteractable (lines 56-78) ----
isVisibleAndInteractable(e) ==
  /\ ~e.disabled
  /\ ~e.styleHidden
  /\ e.hasRects
  /\ e.inViewport
  /\ ~e.ariaHidden

\* ---- looksLikeDownload (lines 80-91) ----
looksLikeDownload(e) ==
  \/ DOWNLOAD_TEXT_RE(e.text) \/ DOWNLOAD_TEXT_RE(e.ariaLabel) \/ DOWNLOAD_TEXT_RE(e.title)
  \/ (e.href # "" /\ HREF_FILE_EXT_RE(e.href))
  \/ e.download
  \/ (e.testid # "" /\ TestIdHasDownload(e.testid))

\* ---- findDownloadControl (lines 93-136) ----
\* the six specific selectors, in the order of the source
SelectorMatches(s, e) ==
  CASE s = 1 -> e.tag = "button" /\ "chakra-button" \in e.classes
    [] s = 2 -> e.tag = "a" /\ {"chakra-link", "chakra-button"} \subseteq e.classes
    [] s = 3 -> e.tag = "a" /\ HrefHasDownload(e.href)
    [] s = 4 -> e.tag = "a" /\ e.download
    [] s = 5 -> e.tag = "button" /\ HasCapitalDownload(e.ariaLabel)
    [] s = 6 -> e.tag = "button" /\ HasCapitalDownload(e.title)

NumSelectors == 6

\* the least index of S, 0 when S is empty
FirstOf(S) == IF S = {} THEN 0 ELSE CHOOSE i \in S : \A j \in S : i <= j

\* document.querySelector(s): the first element in document order, 0 for null
querySelector(d, s) ==
  FirstOf({i \in 1..Len(d) : SelectorMatches(s, d[i])})

\* tier 1: for each selector only its first match is examined
SpecificHits(d) ==
  {s \in 1..NumSelectors :
     LET node == querySelector(d, s)
     IN node # 0 /\ isVisibleAndInteractable(d[node]) /\ looksLikeDownload(d[node])}

Tier1(d) ==
  IF SpecificHits(d) = {} THEN 0 ELSE querySelector(d, FirstOf(SpecificHits(d)))

\* tier 2: a, button, input[type=button|submit], [role="button"] in document order
Clickable(e) == e.tag \in {"a", "button", "input"} \/ e.role = "button"

Tier2(d) ==
  FirstOf({i \in 1..Len(d) :
             Clickable(d[i]) /\ looksLikeDownload(d[i]) /\ isVisibleAndInteractable(d[i])})

\* tier 3: querySelector('[download]'), then the first visible file link
Tier3(d) ==
  LET downloadAttr == FirstOf({i \in 1..Len(d) : d[i].download})
      fileHref == FirstOf({i \in 1..Len(d) :
                             /\ d[i].tag = "a" /\ d[i].href # ""
                             /\ HREF_FILE_EXT_RE(d[i].href)
                             /\ isVisibleAndInteractable(d[i])})
  IN IF downloadAttr # 0 /\ isVisibleAndInteractable(d[downloadAttr])
     THEN downloadAttr ELSE fileHref

\* the index of the returned element, 0 for null
findDownloadControl(d) ==
  IF Tier1(d) # 0 THEN Tier1(d)
  ELSE IF Tier2(d) # 0 THEN Tier2(d)
  ELSE Tier3(d)

\* ---- session storage and the reload ledger (lines 23-35) ----
\* String(v): the decimal digits of v >= 0
RECURSIVE StringOf(_)
StringOf(v) == IF v < 10 THEN <<v>> ELSE Append(StringOf(v \div 10), v % 10)

\* parseInt(s, 10) of a non-empty digit string
RECURSIVE parseInt(_)
parseInt(s) ==
  IF Len(s) = 1 THEN s[1]
  ELSE 10 * parseInt(SubSeq(s, 1, Len(s) - 1)) + s[Len(s)]

\* sessionStorage without the key RELOAD_KEY
NoItem == [has |-> FALSE, val |-> <<>>]

\* sessionStorage.getItem(RELOAD_KEY) || '0'
ItemOrZero(st) == IF st.has /\ st.val # <<>> THEN st.val ELSE <<0>>

\* mutant of getReloadCount: the item is read under another key and never found
getReloadCountWrongKey(st, rf) == 0

\* getReloadCount(): 0 when the storage access throws
getReloadCount(st, rf) == IF rf THEN 0 ELSE parseInt(ItemOrZero(st))

\* mutant of incrementReloadCount: the read value is written back without the + 1
incrementReloadCountNoAdd(st, rf, wf) ==
  LET v == IF rf THEN 0 ELSE parseInt(ItemOrZero(st))
  IN IF wf THEN [ret |-> 0, st |-> st]
     ELSE [ret |-> v, st |-> [has |-> TRUE, val |-> StringOf(v)]]

\* mutant of incrementReloadCount: the stored string is not parsed before the
\* + 1, which then appends the character 1
incrementReloadCountConcat(st, rf, wf) ==
  LET v == IF rf THEN <<1>> ELSE Append(ItemOrZero(st), 1)
  IN IF wf THEN [ret |-> 0, st |-> st]
     ELSE [ret |-> parseInt(v), st |-> [has |-> TRUE, val |-> v]]

\* incrementReloadCount(): [ret |-> returned value, st |-> storage afterwards];
\* a throwing setItem leaves the storage as it was and returns 0
incrementReloadCount(st, rf, wf) ==
  LET v == getReloadCount(st, rf) + 1
  IN IF wf THEN [ret |-> 0, st |-> st]
     ELSE [ret |-> v, st |-> [has |-> TRUE, val |-> StringOf(v)]]

\* mutant of AtCeiling: the comparison is off by one
AtCeilingOffByOne(reloads) == reloads > MAX_RELOADS

\* reloads >= MAX_RELOADS (line 226)
AtCeiling(reloads) == reloads >= MAX_RELOADS

\* BACKOFF_FACTOR ^ n as a fraction
RECURSIVE Pow(_, _)
Pow(b, n) == IF n = 0 THEN 1 ELSE b * Pow(b, n - 1)

Max(a, b) == IF a >= b THEN a ELSE b

\* mutant of ExtraWait: the factor is applied for the attempt about to be made
ExtraWaitNextAttempt(reloads) ==
  Max(MIN_EXTRA_WAIT_MS,
      (INITIAL_WAIT_MS * Pow(BACKOFF_NUM, reloads + 1)) \div Pow(BACKOFF_DEN, reloads + 1))

\* mutant of ExtraWait: the factor divides instead of multiplying
ExtraWaitShrinking(reloads) ==
  Max(MIN_EXTRA_WAIT_MS,
      (INITIAL_WAIT_MS * Pow(BACKOFF_DEN, reloads)) \div Pow(BACKOFF_NUM, reloads))

\* Math.max(2000, Math.floor(INITIAL_WAIT_MS * Math.pow(BACKOFF_FACTOR, reloads)))
ExtraWait(reloads) ==
  Max(MIN_EXTRA_WAIT_MS,
      (INITIAL_WAIT_MS * Pow(BACKOFF_NUM, reloads)) \div Pow(BACKOFF_DEN, reloads))

\* ---- state ----
\* findDownloadControl and isBusyUiPresent on each surface of the page: the
\* retry machine reads them from these tables
ControlOf == [d \in Surfaces |-> findDownloadControl(d)]

BusyOf == [d \in Surfaces |-> isBusyUiPresent(d)]

VARIABLES
  doc,          \* the surface: the document's elements in document order
  storage,      \* sessionStorage's item RELOAD_KEY
  readFails,    \* sessionStorage.getItem throws in this session
  writeFails,   \* sessionStorage.setItem throws in this session
  boot,         \* bootstrap: LOADING, time left of setTimeout(startAutoDl,150), or OFF
  inst,         \* the startAutoDl closures of this page load, in creation order
  backoffs,     \* times left of the pending setTimeout(() => startAutoDl(), extraWait)
  reloadPending,\* location.reload() went through; the page is being replaced
  loads,        \* page loads of the session so far
  reloadCalls,  \* location.reload() invocations of the session so far
  clicks,       \* emulateClick calls of this page load
  calm,         \* no surface of the session so far held a control or was busy
  reloadRead,   \* the counter value read (line 225) before the session's last reload
  ev            \* what the last callback of the script did

vars ==
  <<doc, storage, readFails, writeFails, boot, inst, backoffs, reloadPending,
    loads, reloadCalls, clicks, calm, reloadRead, ev>>

\* a timer that is not pending
OFF == -1
\* the bootstrap still waits for the window's load event
LOADING == -2

\* no reload was made yet
NoRead == -1

\* op: the callback; out: the branch it took; found: the element it located
\* (0: none); read: the counter value it read; delay: the extraWait it scheduled;
\* threw: the dispatch or the reload it made threw; count: the value
\* incrementReloadCount returned (newCount, line 232); bare: the interval
\* callback ran in a closure whose observer never attached
NoEv ==
  [op |-> "none", out |-> "none", found |-> 0, read |-> 0, delay |-> 0, threw |-> FALSE,
   count |-> 0, bare |-> FALSE]

\* the persisted attempt counter (an absent item counts as zero)
Counter == parseInt(ItemOrZero(storage))

Quiet(d) == findDownloadControl(d) = 0 /\ ~isBusyUiPresent(d)

\* ---- time ----
PendingTimes ==
  {t \in ({boot} \cup {inst[i].timer : i \in 1..Len(inst)}
                 \cup {inst[i].watchdog : i \in 1..Len(inst)}
                 \cup {backoffs[k] : k \in 1..Len(backoffs)}) : t >= 0}

MinOf(S) == CHOOSE t \in S : \A u \in S : t <= u

\* a MutationObserver callback is queued: it runs before any timer task
MicrotaskQueued == \E i \in 1..Len(inst) : inst[i].queued

\* the event loop may pick a timer task
TaskReady == ~MicrotaskQueued /\ ~reloadPending

Elapse(t, d) == IF t >= 0 THEN t - d ELSE t

Advance ==
  /\ TaskReady
  /\ PendingTimes # {}
  /\ MinOf(PendingTimes) > 0
  /\ LET d == MinOf(PendingTimes)
     IN /\ boot' = Elapse(boot, d)
        /\ inst' = [i \in 1..Len(inst) |->
                      [inst[i] EXCEPT !.timer = Elapse(@, d), !.watchdog = Elapse(@, d)]]
        /\ backoffs' = [k \in 1..Len(backoffs) |-> Elapse(backoffs[k], d)]
  /\ UNCHANGED <<doc, storage, readFails, writeFails, reloadPending, loads,
                 reloadCalls, clicks, calm, ev, reloadRead>>

\* ---- emulateClick (lines 138-155) ----
\* One call is one activation sequence; a throwing dispatch is caught inside
\* and only logged.  The result is the page's count of emulateClick calls.
emulateClick(n) == n + 1

\* ---- startAutoDl (lines 158-250) ----
\* the closure of one startAutoDl call that found no control at entry:
\* resolved (173), the observer (174-191), elapsed and the interval (194-197),
\* the observer-timeout timer (243-249)
\* mutant of NewClosure: observer.observe is not wrapped in try/catch, so a
\* failing attach ends startAutoDl before the interval and the timeout are set
NewClosureNoCatch(attachFails) ==
  [resolved |-> FALSE,
   connected |-> ~attachFails,
   queued |-> FALSE,
   timer |-> IF attachFails THEN OFF ELSE POLL_INTERVAL_MS,
   elapsed |-> 0,
   watchdog |-> IF attachFails THEN OFF ELSE OBSERVER_TIMEOUT_MS,
   wdFired |-> FALSE,
   phase |-> "SCANNING"]

NewClosure(attachFails) ==
  [resolved |-> FALSE,
   connected |-> ~attachFails,   \* observer.observe did not throw
   queued |-> FALSE,             \* a mutation record waits to be delivered
   timer |-> POLL_INTERVAL_MS,   \* time left to the next interval tick
   elapsed |-> 0,
   watchdog |-> OBSERVER_TIMEOUT_MS,
   wdFired |-> FALSE,
   phase |-> "SCANNING"]

\* observer.disconnect(): stops delivery and empties the record queue
Disconnect(c) == [c EXCEPT !.connected = FALSE, !.queued = FALSE]

\* clearInterval(timer)
ClearInterval(c) == [c EXCEPT !.timer = OFF]

\* if (resolved) return;  (observer callback, line 175)
ObserverSkips(c) == c.resolved

\* mutant of PollSkips: the interval callback does not look at the latch
PollSkipsNever(c) == FALSE

\* if (resolved) { clearInterval(timer); return; }  (interval callback, line 198)
PollSkips(c) == c.resolved

\* mutant of WindowElapsed: the comparison is strict
WindowElapsedStrict(elapsed) == elapsed > INITIAL_WAIT_MS

\* elapsed >= INITIAL_WAIT_MS (line 210)
WindowElapsed(elapsed) == elapsed >= INITIAL_WAIT_MS

\* mutant of startAutoDl: the return after the immediate click is missing
startAutoDlNoReturn(attachFails, throws) ==
  /\ clicks' = IF ControlOf[doc] # 0 THEN emulateClick(clicks) ELSE clicks
  /\ inst' = Append(inst, NewClosure(attachFails))
  /\ ev' = [NoEv EXCEPT !.op = "start",
                        !.out = IF ControlOf[doc] # 0 THEN "found" ELSE "scan",
                        !.threw = ControlOf[doc] # 0 /\ throws,
                        !.found = ControlOf[doc]]

\* lines 162-166 and 173-249: the primed part of one startAutoDl call
startAutoDl(attachFails, throws) ==
  IF ControlOf[doc] # 0
  THEN /\ clicks' = emulateClick(clicks)
       /\ inst' = inst
       /\ ev' = [NoEv EXCEPT !.op = "start", !.out = "found", !.threw = throws,
                             !.found = ControlOf[doc]]
  ELSE /\ clicks' = clicks
       /\ inst' = Append(inst, NewClosure(attachFails))
       /\ ev' = [NoEv EXCEPT !.op = "start", !.out = "scan"]

\* the bootstrap's setTimeout(startAutoDl, 150) fires (lines 253-257)
Start ==
  /\ TaskReady
  /\ boot = 0
  /\ boot' = OFF
  /\ \E attachFails \in BOOLEAN, throws \in BOOLEAN : startAutoDl(attachFails, throws)
  /\ UNCHANGED <<doc, storage, readFails, writeFails, backoffs, reloadPending,
                 loads, reloadCalls, calm, reloadRead>>

RemoveAt(s, k) == SubSeq(s, 1, k - 1) \o SubSeq(s, k + 1, Len(s))

\* a busy backoff's setTimeout(() => startAutoDl(), extraWait) fires (line 220)
Retry(k) ==
  /\ TaskReady
  /\ backoffs[k] = 0
  /\ Len(inst) < MaxInstances
  /\ backoffs' = RemoveAt(backoffs, k)
  /\ \E attachFails \in BOOLEAN, throws \in BOOLEAN : startAutoDl(attachFails, throws)
  /\ UNCHANGED <<doc, storage, readFails, writeFails, boot, reloadPending,
                 loads, reloadCalls, calm, reloadRead>>

\* the MutationObserver callback (lines 174-183)
Observe(i) ==
  /\ inst[i].queued
  /\ ~reloadPending
  /\ LET c == [inst[i] EXCEPT !.queued = FALSE]
         hit == ~ObserverSkips(c) /\ ControlOf[doc] # 0
     IN /\ inst' = [inst EXCEPT ![i] =
                      IF hit
                      THEN [Disconnect(c) EXCEPT !.resolved = TRUE, !.phase = "RESOLVED"]
                      ELSE c]
        /\ clicks' = IF hit THEN emulateClick(clicks) ELSE clicks
        /\ \E throws \in BOOLEAN :
             ev' = [NoEv EXCEPT !.op = "observer",
                                !.out = IF hit THEN "found" ELSE "none",
                                !.found = IF hit THEN ControlOf[doc] ELSE 0,
                                !.threw = hit /\ throws]
  /\ UNCHANGED <<doc, storage, readFails, writeFails, boot, backoffs, reloadPending,
                 loads, reloadCalls, calm, reloadRead>>

\* interval callback, line 198: already resolved
PollResolved(i) ==
  /\ PollSkips(inst[i])
  /\ inst' = [inst EXCEPT ![i] = ClearInterval(@)]
  /\ ev' = [NoEv EXCEPT !.op = "poll", !.out = "noop"]
  /\ UNCHANGED <<storage, backoffs, reloadPending, reloadCalls, clicks, reloadRead>>

\* mutant of PollFound: emulateClick has no try/catch and is called before the
\* latch is set, so a throwing dispatch leaves the closure polling
PollFoundUnguarded(i) ==
  /\ ~PollSkips(inst[i])
  /\ ControlOf[doc] # 0
  /\ clicks' = emulateClick(clicks)
  /\ \E throws \in BOOLEAN :
       /\ inst' = [inst EXCEPT ![i] =
                     IF throws
                     THEN [@ EXCEPT !.timer = POLL_INTERVAL_MS]
                     ELSE [Disconnect(ClearInterval(@)) EXCEPT
                             !.resolved = TRUE, !.phase = "RESOLVED"]]
       /\ ev' = [NoEv EXCEPT !.op = "poll", !.out = "found", !.threw = throws,
                             !.bare = ~inst[i].connected,
                             !.found = ControlOf[doc]]
  /\ UNCHANGED <<storage, backoffs, reloadPending, reloadCalls, reloadRead>>

\* interval callback, lines 199-207: the control is there
PollFound(i) ==
  /\ ~PollSkips(inst[i])
  /\ ControlOf[doc] # 0
  /\ inst' = [inst EXCEPT ![i] =
                [Disconnect(ClearInterval(@)) EXCEPT !.resolved = TRUE, !.phase = "RESOLVED"]]
  /\ clicks' = emulateClick(clicks)
  /\ \E throws \in BOOLEAN :
       ev' = [NoEv EXCEPT !.op = "poll", !.out = "found", !.threw = throws,
                          !.bare = ~inst[i].connected,
                          !.found = ControlOf[doc]]
  /\ UNCHANGED <<storage, backoffs, reloadPending, reloadCalls, reloadRead>>

\* interval callback, lines 208-210: the watch window goes on
PollWait(i) ==
  /\ ~PollSkips(inst[i])
  /\ ControlOf[doc] = 0
  /\ ~WindowElapsed(inst[i].elapsed + POLL_INTERVAL_MS)
  /\ inst' = [inst EXCEPT ![i].elapsed = @ + POLL_INTERVAL_MS, ![i].timer = POLL_INTERVAL_MS]
  /\ ev' = [NoEv EXCEPT !.op = "poll", !.out = "tick", !.bare = ~inst[i].connected]
  /\ UNCHANGED <<storage, backoffs, reloadPending, reloadCalls, clicks, reloadRead>>

\* mutant of Expire: the interval is not cleared at window expiry
ExpireKeepsInterval(c, phase) ==
  [c EXCEPT !.connected = FALSE, !.queued = FALSE, !.timer = POLL_INTERVAL_MS,
            !.elapsed = @ + POLL_INTERVAL_MS, !.phase = phase]

\* window expiry, lines 211-212: what every expiry branch does to the closure
Expire(c, phase) ==
  [Disconnect(ClearInterval(c)) EXCEPT !.elapsed = @ + POLL_INTERVAL_MS, !.phase = phase]

Expiring(i) ==
  /\ ~PollSkips(inst[i])
  /\ ControlOf[doc] = 0
  /\ WindowElapsed(inst[i].elapsed + POLL_INTERVAL_MS)

\* interval callback, lines 214-222: busy, retry later without reloading
PollBusy(i) ==
  /\ Expiring(i)
  /\ BusyOf[doc]
  /\ LET reloads == getReloadCount(storage, readFails)
         extraWait == ExtraWait(reloads)
     IN /\ backoffs' = Append(backoffs, extraWait)
        /\ ev' = [NoEv EXCEPT !.op = "poll", !.out = "busy", !.bare = ~inst[i].connected,
                              !.read = reloads, !.delay = extraWait]
  /\ inst' = [inst EXCEPT ![i] = Expire(@, "BUSY_BACKOFF")]
  /\ UNCHANGED <<storage, reloadPending, reloadCalls, clicks, reloadRead>>

\* mutant of PollGiveUp: the reload limit is tested before the busy check
PollGiveUpFirst(i) ==
  /\ Expiring(i)
  /\ AtCeiling(getReloadCount(storage, readFails))
  /\ inst' = [inst EXCEPT ![i] = Expire(@, "GIVEN_UP")]
  /\ ev' = [NoEv EXCEPT !.op = "poll", !.out = "giveup", !.bare = ~inst[i].connected,
                        !.read = getReloadCount(storage, readFails)]
  /\ UNCHANGED <<storage, backoffs, reloadPending, reloadCalls, clicks, reloadRead>>

\* interval callback, lines 225-229: the reload limit is reached
PollGiveUp(i) ==
  /\ Expiring(i)
  /\ ~BusyOf[doc]
  /\ AtCeiling(getReloadCount(storage, readFails))
  /\ inst' = [inst EXCEPT ![i] = Expire(@, "GIVEN_UP")]
  /\ ev' = [NoEv EXCEPT !.op = "poll", !.out = "giveup", !.bare = ~inst[i].connected,
                        !.read = getReloadCount(storage, readFails)]
  /\ UNCHANGED <<storage, backoffs, reloadPending, reloadCalls, clicks, reloadRead>>

\* interval callback, lines 231-238: count the reload, then reload
PollReload(i) ==
  /\ Expiring(i)
  /\ ~BusyOf[doc]
  /\ ~AtCeiling(getReloadCount(storage, readFails))
  /\ storage' = incrementReloadCount(storage, readFails, writeFails).st
  /\ reloadCalls' = reloadCalls + 1
  /\ reloadRead' = getReloadCount(storage, readFails)
  /\ inst' = [inst EXCEPT ![i] = Expire(@, "RELOAD_PENDING")]
  /\ \E throws \in BOOLEAN :
       /\ reloadPending' = ~throws
       /\ ev' = [NoEv EXCEPT
                  !.op = "poll", !.out = "reload", !.threw = throws,
                  !.bare = ~inst[i].connected,
                  !.read = getReloadCount(storage, readFails),
                  !.count = incrementReloadCount(storage, readFails, writeFails).ret]
  /\ UNCHANGED <<backoffs, clicks>>

\* the setInterval callback (lines 197-240)
Poll(i) ==
  /\ TaskReady
  /\ inst[i].timer = 0
  /\ \/ PollResolved(i)
     \/ PollFound(i)
     \/ PollWait(i)
     \/ PollBusy(i)
     \/ PollGiveUp(i)
     \/ PollReload(i)
  /\ UNCHANGED <<doc, readFails, writeFails, boot, loads, calm>>

\* mutant of Watchdog: the observer, the interval and the latch are shared by
\* all closures, so the callback acts on the newest closure
WatchdogShared(i) ==
  /\ TaskReady
  /\ inst[i].watchdog = 0
  /\ LET n == Len(inst)
         fired == [inst EXCEPT ![i].watchdog = OFF, ![i].wdFired = TRUE]
     IN inst' = [fired EXCEPT ![n] =
                   IF ~@.resolved
                   THEN [Disconnect(ClearInterval(@)) EXCEPT
                           !.phase = IF @ = "SCANNING" THEN "TIMED_OUT" ELSE @]
                   ELSE @]
  /\ ev' = [NoEv EXCEPT !.op = "watchdog",
                        !.out = IF inst[i].resolved THEN "noop" ELSE "stop"]
  /\ UNCHANGED <<doc, storage, readFails, writeFails, boot, backoffs, reloadPending,
                 loads, reloadCalls, clicks, calm, reloadRead>>

\* the observer-timeout callback (lines 243-249)
Watchdog(i) ==
  /\ TaskReady
  /\ inst[i].watchdog = 0
  /\ LET c == [inst[i] EXCEPT !.watchdog = OFF, !.wdFired = TRUE]
     IN inst' = [inst EXCEPT ![i] =
                   IF ~c.resolved
                   THEN [Disconnect(ClearInterval(c)) EXCEPT
                           !.phase = IF @ = "SCANNING" THEN "TIMED_OUT" ELSE @]
                   ELSE c]
  /\ ev' = [NoEv EXCEPT !.op = "watchdog",
                        !.out = IF inst[i].resolved THEN "noop" ELSE "stop"]
  /\ UNCHANGED <<doc, storage, readFails, writeFails, boot, backoffs, reloadPending,
                 loads, reloadCalls, clicks, calm, reloadRead>>

\* ---- the page ----
\* The page's own application changes the surface.  Structural and attribute
\* changes are reported to a connected observer (childList, subtree,
\* attributes: line 188); a change of character data alone is not.
SurfaceChange(d, notify) ==
  /\ ~MicrotaskQueued
  /\ d # doc
  /\ doc' = d
  /\ calm' = (calm /\ Quiet(d))
  /\ inst' = [i \in 1..Len(inst) |->
                [inst[i] EXCEPT !.queued = notify /\ inst[i].connected]]
  /\ UNCHANGED <<storage, readFails, writeFails, boot, backoffs, reloadPending,
                 loads, reloadCalls, clicks, ev, reloadRead>>

\* the window's load event: the listener of line 256 starts the 150 ms timer
LoadEvent ==
  /\ boot = LOADING
  /\ ~reloadPending
  /\ boot' = START_DELAY_MS
  /\ UNCHANGED <<doc, storage, readFails, writeFails, inst, backoffs, reloadPending,
                 loads, reloadCalls, clicks, calm, ev, reloadRead>>

\* location.reload() takes effect: the page and everything the script owns
\* are replaced, sessionStorage stays, and the script runs again (lines 253-257)
PageLoad(d, ready) ==
  /\ reloadPending
  /\ loads < MaxLoads
  /\ doc' = d
  /\ calm' = (calm /\ Quiet(d))
  /\ boot' = IF ready THEN START_DELAY_MS ELSE LOADING
  /\ inst' = <<>>
  /\ backoffs' = <<>>
  /\ reloadPending' = FALSE
  /\ loads' = loads + 1
  /\ clicks' = 0
  /\ ev' = NoEv
  /\ UNCHANGED <<storage, readFails, writeFails, reloadCalls, reloadRead>>

Init ==
  /\ doc \in Surfaces
  /\ calm = Quiet(doc)
  /\ storage = NoItem
  /\ readFails \in BOOLEAN
  /\ writeFails \in BOOLEAN
  /\ boot \in {LOADING, START_DELAY_MS}
  /\ inst = <<>>
  /\ backoffs = <<>>
  /\ reloadPending = FALSE
  /\ loads = 1
  /\ reloadCalls = 0
  /\ clicks = 0
  /\ reloadRead = NoRead
  /\ ev = NoEv

Next ==
  \/ Advance
  \/ Start
  \/ LoadEvent
  \/ \E k \in 1..Len(backoffs) : Retry(k)
  \/ \E i \in 1..Len(inst) : Observe(i)
  \/ \E i \in 1..Len(inst) : Poll(i)
  \/ \E i \in 1..Len(inst) : Watchdog(i)
  \/ \E d \in Surfaces, notify \in BOOLEAN : SurfaceChange(d, notify)
  \/ \E d \in Surfaces, ready \in BOOLEAN : PageLoad(d, ready)

Spec == Init /\ [][Next]_vars

\* The event loop runs every queued MutationObserver callback and every timer
\* callback whose time has come, time passes while a timer is pending, the
\* load event of a loading page arrives, and a reload that location.reload()
\* started takes effect.  Nothing is asked of the page's own changes.
Fairness ==
  /\ WF_vars(Advance)
  /\ WF_vars(Start)
  /\ WF_vars(LoadEvent)
  /\ WF_vars(\E k \in 1..Len(backoffs) : Retry(k))
  /\ WF_vars(\E i \in 1..Len(inst) : Observe(i))
  /\ WF_vars(\E i \in 1..Len(inst) : Poll(i))
  /\ WF_vars(\E i \in 1..Len(inst) : Watchdog(i))
  /\ WF_vars(\E d \in Surfaces, ready \in BOOLEAN : PageLoad(d, ready))

SpecFair == Spec /\ Fairness

\* ---- the locator and the busy detector on their own ----
\* Every document of Docs is a surface; the script's queries are applied to it.
InitLocator ==
  /\ doc \in Docs
  /\ calm = Quiet(doc)
  /\ storage = NoItem
  /\ readFails = FALSE
  /\ writeFails = FALSE
  /\ boot = OFF
  /\ inst = <<>>
  /\ backoffs = <<>>
  /\ reloadPending = FALSE
  /\ loads = 1
  /\ reloadCalls = 0
  /\ clicks = 0
  /\ reloadRead = NoRead
  /\ ev = NoEv

Locate ==
  /\ ev' = [NoEv EXCEPT !.op = "locate", !.found = findDownloadControl(doc),
                        !.out = IF findDownloadControl(doc) # 0 THEN "found" ELSE "none"]
  /\ UNCHANGED <<doc, storage, readFails, writeFails, boot, inst, backoffs,
                 reloadPending, loads, reloadCalls, clicks, calm, reloadRead>>

Detect ==
  /\ ev' = [NoEv EXCEPT !.op = "detect",
                        !.out = IF isBusyUiPresent(doc) THEN "busy" ELSE "idle"]
  /\ UNCHANGED <<doc, storage, readFails, writeFails, boot, inst, backoffs,
                 reloadPending, loads, reloadCalls, clicks, calm, reloadRead>>

NextLocator == Locate \/ Detect

SpecLocator == InitLocator /\ [][NextLocator]_vars

\* ---- the ledger on its own ----
\* The item holds any count up to MaxStored (or is absent); the two ledger
\* operations are applied to it, with storage accesses that throw or not.
InitLedger ==
  /\ doc = Blank
  /\ calm = TRUE
  /\ storage \in {NoItem} \cup {[has |-> TRUE, val |-> StringOf(n)] : n \in 0..MaxStored}
  /\ readFails \in BOOLEAN
  /\ writeFails \in BOOLEAN
  /\ boot = OFF
  /\ inst = <<>>
  /\ backoffs = <<>>
  /\ reloadPending = FALSE
  /\ loads = 1
  /\ reloadCalls = 0
  /\ clicks = 0
  /\ reloadRead = NoRead
  /\ ev = NoEv

\* a call of getReloadCount()
Get ==
  /\ ev' = [NoEv EXCEPT !.op = "get", !.read = getReloadCount(storage, readFails)]
  /\ UNCHANGED <<doc, storage, readFails, writeFails, boot, inst, backoffs,
                 reloadPending, loads, reloadCalls, clicks, calm, reloadRead>>

\* a call of incrementReloadCount()
Increment ==
  /\ Counter <= MaxStored
  /\ storage' = incrementReloadCount(storage, readFails, writeFails).st
  /\ ev' = [NoEv EXCEPT !.op = "increment",
                        !.count = incrementReloadCount(storage, readFails, writeFails).ret]
  /\ UNCHANGED <<doc, readFails, writeFails, boot, inst, backoffs,
                 reloadPending, loads, reloadCalls, clicks, calm, reloadRead>>

NextLedger == Get \/ Increment

SpecLedger == InitLedger /\ [][NextLedger]_vars

\* ---- properties ----
StorageWorks == ~readFails /\ ~writeFails

\* C1: with working session storage and the counter starting at 0,
\* location.reload() is invoked at most MAX_RELOADS times in the session, over
\* all page loads, and only when the counter read just before was below
\* MAX_RELOADS.
C1_ReloadCeiling ==
  StorageWorks =>
    /\ reloadCalls <= MAX_RELOADS
    /\ (ev.out = "reload" => ev.read < MAX_RELOADS)

\* the third reload of a session is being made
C1_Witness ==
  /\ StorageWorks
  /\ ev.out = "reload"
  /\ ev.read = MAX_RELOADS - 1
  /\ reloadCalls = MAX_RELOADS
  /\ loads = MAX_RELOADS

ExpiryStep(i) ==
  /\ i <= Len(inst')
  /\ inst[i].phase = "SCANNING"
  /\ inst'[i].phase \in {"BUSY_BACKOFF", "GIVEN_UP", "RELOAD_PENDING"}

\* what C3 says of one step
C3_Step ==
  /\ \A i \in 1..Len(inst) :
       ExpiryStep(i) =>
         IF Counter < MAX_RELOADS
         THEN /\ reloadCalls' = reloadCalls + 1
              /\ Counter' = Counter + 1
              /\ inst'[i].phase = "RELOAD_PENDING"
         ELSE /\ inst'[i].phase = "GIVEN_UP"
              /\ reloadCalls' = reloadCalls
              /\ Counter' = Counter
  /\ (Counter = MAX_RELOADS => Counter' = Counter)

C4_LatchIdempotent ==
  [][\A i \in 1..Len(inst) :
       (inst[i].resolved /\ loads' = loads) =>
         /\ clicks' = clicks
         /\ reloadCalls' = reloadCalls
         /\ ~reloadPending'
         /\ Len(backoffs') <= Len(backoffs)
         /\ storage' = storage]_vars

\* the observer resolved and the interval callback that was still scheduled
\* ran afterwards
C4_Witness ==
  /\ ev.op = "poll"
  /\ ev.out = "noop"
  /\ clicks = 1
  /\ \E i \in 1..Len(inst) : inst[i].resolved /\ inst[i].timer = OFF

\* closure c still detects: its observer is connected or its interval runs
Scanning(c) == c.connected \/ c.timer # OFF

\* C5 (as stated): the watchdog started at the first startAutoDl entry of a
\* page load ends all scanning: once it has fired with nothing resolved, no
\* closure of the page has a connected observer or a running interval, and no
\* backoff re-entry is pending.
C5_WatchdogStopsAll ==
  (/\ Len(inst) >= 1
   /\ inst[1].wdFired
   /\ \A i \in 1..Len(inst) : ~inst[i].resolved)
  => /\ \A i \in 1..Len(inst) : ~Scanning(inst[i])
     /\ backoffs = <<>>

\* C6 (as stated): a closure that is RESOLVED or GIVEN_UP, or that has just
\* triggered a reload, has its observer disconnected, its interval cleared and
\* its observer timeout cancelled.
C6_TerminalReleasesAll ==
  \A i \in 1..Len(inst) :
    inst[i].phase \in {"RESOLVED", "GIVEN_UP", "RELOAD_PENDING"} =>
      /\ ~inst[i].connected
      /\ inst[i].timer = OFF
      /\ inst[i].watchdog = OFF

\* the window of closure i expires in this step on a busy surface
BusyExpiry(i) == ExpiryStep(i) /\ isBusyUiPresent(doc)

\* C7: a window expiry on a busy surface with no control reloads nothing and
\* leaves the counter as it is, in every backoff round; the counter is written
\* only in a step that also reloads; with counter 0 the re-entry is scheduled
\* after INITIAL_WAIT_MS.
C7_BusyKeepsLedger ==
  [][/\ \A i \in 1..Len(inst) :
          BusyExpiry(i) =>
            /\ reloadCalls' = reloadCalls
            /\ ~reloadPending'
            /\ storage' = storage
            /\ inst'[i].phase = "BUSY_BACKOFF"
            /\ Len(backoffs') = Len(backoffs) + 1
            /\ (Counter = 0 => backoffs'[Len(backoffs')] = INITIAL_WAIT_MS)
     /\ (storage' # storage => reloadCalls' = reloadCalls + 1)]_vars

\* the second consecutive backoff round of a page, counter still 0
C7_Witness ==
  /\ Len(inst) = 2
  /\ inst[1].phase = "BUSY_BACKOFF"
  /\ inst[2].phase = "BUSY_BACKOFF"
  /\ ev.out = "busy"
  /\ ev.delay = INITIAL_WAIT_MS
  /\ backoffs = <<INITIAL_WAIT_MS>>
  /\ Counter = 0
  /\ reloadCalls = 0

\* a startAutoDl call is made in this step (by the bootstrap or a backoff timer)
StartStep ==
  \/ boot = 0 /\ boot' = OFF
  \/ loads' = loads /\ Len(backoffs') < Len(backoffs)

\* C8: a startAutoDl call that finds a control at entry activates exactly once,
\* creates no observer, interval, observer timeout or backoff timer, and leaves
\* the counter as it is.
C8_ImmediateActivation ==
  [][(StartStep /\ findDownloadControl(doc) # 0) =>
       /\ clicks' = clicks + 1
       /\ inst' = inst
       /\ Len(backoffs') <= Len(backoffs)
       /\ storage' = storage
       /\ reloadCalls' = reloadCalls
       /\ ~reloadPending']_vars

\* the bootstrap's call found the control: one click, nothing created
C8_Witness ==
  /\ ev.op = "start"
  /\ ev.out = "found"
  /\ clicks = 1
  /\ inst = <<>>
  /\ backoffs = <<>>
  /\ boot = OFF

\* element e is accepted by tier 1's checks for some specific selector
Tier1Qualifies(e) ==
  /\ \E s \in 1..NumSelectors : SelectorMatches(s, e)
  /\ isVisibleAndInteractable(e)
  /\ looksLikeDownload(e)

\* C9 (as stated): on a surface holding an element that matches a specific
\* selector and passes the checks, findDownloadControl returns such an element,
\* never one that qualifies through tier 2 or 3 only, also when an earlier
\* match of the same selector fails the checks.
C9_Tier1Preferred ==
  (ev.op = "locate" /\ \E i \in 1..Len(doc) : Tier1Qualifies(doc[i]))
  => ev.found # 0 /\ Tier1Qualifies(doc[ev.found])

\* C10: the scheduled busy backoff delay is at least MIN_EXTRA_WAIT_MS and at
\* least the delay of every smaller counter value, for counters 0..MAX_RELOADS.
C10_BackoffMonotone ==
  (ev.out = "busy" /\ ev.read \in 0..MAX_RELOADS) =>
    /\ ev.delay >= MIN_EXTRA_WAIT_MS
    /\ \A m \in 0..ev.read : ExtraWait(m) <= ev.delay
    /\ \A m \in ev.read..MAX_RELOADS : ev.delay <= ExtraWait(m)

\* a backoff was scheduled with the counter at the ceiling
C10_Witness ==
  /\ ev.out = "busy"
  /\ ev.read = MAX_RELOADS
  /\ Counter = MAX_RELOADS
  /\ ev.delay > INITIAL_WAIT_MS

\* what C11 says of one step
C11_Step ==
  /\ (storage' # storage => reloadCalls' = reloadCalls + 1)
  /\ (reloadCalls' # reloadCalls => Counter' = reloadRead' + 1)
  /\ \A i \in 1..Len(inst) :
       (ExpiryStep(i) /\ reloadRead # NoRead) => ev'.read = reloadRead + 1

C12_LedgerDegrades ==
  [][/\ (ev'.op = "get" /\ readFails) => ev'.read = 0
     /\ (ev'.op = "increment" /\ (readFails \/ writeFails)) =>
          (ev'.count = 0 /\ storage' = storage)]_vars

\* closure c is watching without an observer: observer.observe threw
AttachFailed(c) == c.phase = "SCANNING" /\ ~c.connected

\* the interval callback of closure i runs in this step
PollStep(i) ==
  /\ inst[i].timer = 0
  /\ i <= Len(inst')
  /\ inst'[i].timer # 0

\* the decision an interval tick of a watching closure takes, from the
\* surface, the elapsed time and the counter alone
PollDecision(i) ==
  IF findDownloadControl(doc) # 0
    THEN /\ clicks = 0 /\ clicks' = 1
         /\ inst'[i].resolved /\ inst'[i].phase = "RESOLVED" /\ inst'[i].timer = OFF
         /\ reloadCalls' = reloadCalls /\ backoffs' = backoffs
  ELSE IF inst[i].elapsed + POLL_INTERVAL_MS < INITIAL_WAIT_MS
    THEN /\ inst'[i].phase = "SCANNING" /\ inst'[i].timer = POLL_INTERVAL_MS
         /\ clicks' = clicks /\ reloadCalls' = reloadCalls /\ backoffs' = backoffs
  ELSE IF isBusyUiPresent(doc)
    THEN /\ inst'[i].phase = "BUSY_BACKOFF" /\ Len(backoffs') = Len(backoffs) + 1
         /\ clicks' = clicks /\ reloadCalls' = reloadCalls
  ELSE IF (IF readFails THEN 0 ELSE Counter) >= MAX_RELOADS
    THEN /\ inst'[i].phase = "GIVEN_UP"
         /\ clicks' = clicks /\ reloadCalls' = reloadCalls /\ backoffs' = backoffs
  ELSE /\ inst'[i].phase = "RELOAD_PENDING" /\ reloadCalls' = reloadCalls + 1
       /\ clicks' = clicks /\ backoffs' = backoffs

\* C13: a closure whose observer failed to attach still gets its interval and
\* its observer timeout, and its interval ticks decide as those of a closure
\* with an attached observer: a control present at a tick is activated once,
\* and window expiry leads to backoff, give-up or reload.
C13_PollingAlone ==
  [][/\ Len(inst') = Len(inst) + 1 =>
          /\ inst'[Len(inst')].timer = POLL_INTERVAL_MS
          /\ inst'[Len(inst')].watchdog = OBSERVER_TIMEOUT_MS
          /\ inst'[Len(inst')].phase = "SCANNING"
     /\ \A i \in 1..Len(inst) :
          (inst[i].phase = "SCANNING" /\ PollStep(i)) => PollDecision(i)]_vars

\* a control that appeared during the watch was activated by an interval tick
\* of a closure without observer
C13_Witness ==
  /\ ev.op = "poll"
  /\ ev.out = "found"
  /\ ev.bare
  /\ clicks = 1
  /\ \E i \in 1..Len(inst) : inst[i].resolved /\ inst[i].elapsed > 0

\* the tick of closure i on which its accumulated elapsed time reaches
\* INITIAL_WAIT_MS when the tick finds nothing
LastTick(i) ==
  /\ inst[i].phase = "SCANNING"
  /\ PollStep(i)
  /\ inst[i].elapsed + POLL_INTERVAL_MS >= INITIAL_WAIT_MS

\* C15: at window expiry with no control, a busy surface leads to BUSY_BACKOFF
\* whatever the counter, with no reload and no counter write; a closure becomes
\* GIVEN_UP only at a window expiry with no control, a surface that is not busy
\* and a counter that is at least MAX_RELOADS.
C15_BusyBeforeCeiling ==
  [][\A i \in 1..Len(inst) :
       /\ (LastTick(i) /\ findDownloadControl(doc) = 0 /\ isBusyUiPresent(doc)) =>
            /\ inst'[i].phase = "BUSY_BACKOFF"
            /\ Len(backoffs') = Len(backoffs) + 1
            /\ storage' = storage
            /\ reloadCalls' = reloadCalls
            /\ ~reloadPending'
       /\ (/\ i <= Len(inst')
           /\ inst[i].phase # "GIVEN_UP"
           /\ inst'[i].phase = "GIVEN_UP") =>
            /\ LastTick(i)
            /\ findDownloadControl(doc) = 0
            /\ ~isBusyUiPresent(doc)
            /\ Counter >= MAX_RELOADS]_vars

\* the busy check won at the ceiling: a backoff was scheduled with the counter
\* at MAX_RELOADS
C15_Witness ==
  /\ ev.op = "poll"
  /\ ev.out = "busy"
  /\ Counter >= MAX_RELOADS
  /\ backoffs # <<>>
  /\ \E i \in 1..Len(inst) : inst[i].phase = "BUSY_BACKOFF"

\* C16: an interval tick of a watching closure that finds a control activates
\* it and schedules no backoff, reloads nothing, writes no counter and does not
\* give up; the window expires only on a tick that found nothing, and that tick
\* is the one that brings the elapsed time to INITIAL_WAIT_MS.
C16_LocatorFirst ==
  [][\A i \in 1..Len(inst) :
       /\ (inst[i].phase = "SCANNING" /\ PollStep(i) /\ findDownloadControl(doc) # 0) =>
            /\ clicks' = clicks + 1
            /\ inst'[i].phase = "RESOLVED"
            /\ backoffs' = backoffs
            /\ storage' = storage
            /\ reloadCalls' = reloadCalls
            /\ ~reloadPending'
       /\ ExpiryStep(i) =>
            /\ PollStep(i)
            /\ findDownloadControl(doc) = 0
            /\ inst[i].elapsed + POLL_INTERVAL_MS = INITIAL_WAIT_MS]_vars

\* a control was found and activated by the last tick of the window
C16_Witness ==
  /\ ev.op = "poll"
  /\ ev.out = "found"
  /\ clicks = 1
  /\ \E i \in 1..Len(inst) :
       /\ inst[i].phase = "RESOLVED"
       /\ inst[i].elapsed + POLL_INTERVAL_MS = INITIAL_WAIT_MS

\* C17: between two page loads emulateClick is called at most once, over all
\* closures and all interleavings of their callbacks.
C17_SingleActivation == clicks <= 1

\* a closure entered after a busy backoff has activated the control
C17_Witness ==
  /\ clicks = 1
  /\ Len(inst) >= 2
  /\ inst[Len(inst)].resolved
  /\ \A i \in 1..(Len(inst) - 1) : inst[i].phase = "BUSY_BACKOFF"

\* C18: at most one closure has a connected observer or a running interval,
\* and a backoff re-entry is pending only while no closure has one.
C18_OneScanner ==
  /\ Cardinality({i \in 1..Len(inst) : Scanning(inst[i])}) <= 1
  /\ backoffs # <<>> => \A i \in 1..Len(inst) : ~Scanning(inst[i])

\* a second closure scans after the first one handed over
C18_Witness ==
  /\ Len(inst) >= 2
  /\ inst[1].phase = "BUSY_BACKOFF"
  /\ ~Scanning(inst[1])
  /\ inst[2].connected
  /\ inst[2].timer # OFF
  /\ backoffs = <<>>

\* the observer timeout of closure j fires in this step
WatchdogStep(j) ==
  /\ inst[j].watchdog = 0
  /\ Len(inst') = Len(inst)
  /\ inst'[j].watchdog = OFF

\* C19: the observer timeout of a closure that handed over through a busy
\* backoff leaves every later closure, the counter and the reload count as
\* they are.
C19_WatchdogFrame ==
  [][\A j \in 1..Len(inst) :
       (WatchdogStep(j) /\ inst[j].phase = "BUSY_BACKOFF") =>
         /\ \A i \in (j + 1)..Len(inst) : inst'[i] = inst[i]
         /\ storage' = storage
         /\ backoffs' = backoffs
         /\ reloadCalls' = reloadCalls]_vars

\* the first closure's observer timeout has fired while a later closure scans
C19_Witness ==
  /\ ev.op = "watchdog"
  /\ Len(inst) >= 2
  /\ inst[1].phase = "BUSY_BACKOFF"
  /\ inst[1].wdFired
  /\ ~inst[2].wdFired
  /\ inst[Len(inst)].phase = "SCANNING"
  /\ inst[Len(inst)].connected
  /\ inst[Len(inst)].timer # OFF

\* a control that findDownloadControl returns is on the surface
ControlPresent == findDownloadControl(doc) # 0

\* something of the script is still to run: the start timer or the load
\* listener, an interval, a backoff re-entry, or a reload under way
Alive ==
  \/ boot # OFF
  \/ \E i \in 1..Len(inst) : inst[i].timer # OFF
  \/ backoffs # <<>>
  \/ reloadPending

\* the re-entry or the page load the script is waiting for is within the
\* explored range
InRange ==
  /\ backoffs # <<>> => Len(inst) < MaxInstances
  /\ reloadPending => loads < MaxLoads

\* C20: a control that is present while the script still has something to
\* run is activated, unless it goes away first; no observer notification is
\* needed for that.
C20_EventuallyActivated ==
  (ControlPresent /\ Alive /\ InRange) ~> (clicks >= 1 \/ ~ControlPresent)

\* a control present when the page came back from a reload was activated at
\* the entry of startAutoDl
C20_Witness ==
  /\ ev.op = "start"
  /\ ev.out = "found"
  /\ clicks = 1
  /\ loads >= 2
  /\ reloadCalls >= 1

\* what C14 says of one step: a step whose dispatch threw is an activation
\* like any other, and after an activation the page sees no second one, no
\* backoff and no reload
C14_Step ==
  /\ (ev' # ev /\ ev'.threw /\ ev'.out = "found") =>
       /\ clicks' = clicks + 1
       /\ Len(backoffs') <= Len(backoffs)
       /\ storage' = storage
       /\ reloadCalls' = reloadCalls
       /\ ~reloadPending'
       /\ ev'.op \in {"observer", "poll"} =>
            \E i \in 1..Len(inst) :
              /\ ~inst[i].resolved
              /\ inst'[i].resolved
              /\ inst'[i].phase = "RESOLVED"
              /\ ~inst'[i].connected
              /\ ~inst'[i].queued
              /\ ev'.op = "poll" => inst'[i].timer = OFF
  /\ (clicks >= 1 /\ loads' = loads) =>
       /\ clicks' = clicks
       /\ Len(inst') = Len(inst)
       /\ backoffs' = backoffs
       /\ storage' = storage
       /\ reloadCalls' = reloadCalls
       /\ ~reloadPending'

\* closure i has ended resolved: latch set, observer disconnected, interval
\* cleared
EndedResolved(i) ==
  /\ i <= Len(inst)
  /\ inst[i].resolved
  /\ inst[i].phase = "RESOLVED"
  /\ ~inst[i].connected
  /\ inst[i].timer = OFF

\* C14: a dispatch that throws inside emulateClick changes nothing of what the
\* caller does: the activation counts once and is not repeated, the closure
\* sets its latch and ends resolved with its observer disconnected and its
\* interval cleared, and no backoff or reload follows.
C14_DispatchFailureContained ==
  /\ [][C14_Step]_vars
  /\ (\E i \in 1..Len(inst) : inst[i].resolved)
       ~> (\A i \in 1..Len(inst) : inst[i].resolved => EndedResolved(i))

\* the dispatch threw in the observer callback: the closure is resolved and
\* its interval is still to see the latch
C14_Witness ==
  /\ ev.op = "observer"
  /\ ev.out = "found"
  /\ ev.threw
  /\ clicks = 1
  /\ \E i \in 1..Len(inst) :
       /\ inst[i].resolved
       /\ ~inst[i].connected
       /\ inst[i].timer # OFF

====
